---- MODULE Spec2Model ----
(***************************************************************************)
(* Model of salvo's OpensslListener (crates/core/src/conn/openssl/         *)
(* listener.rs): a TLS acceptor whose accept() multiplexes a stream of     *)
(* configuration snapshots and a transport acceptor over one optional      *)
(* "current context" slot, and hands every raw connection to a lazily      *)
(* driven handshake future.                                                *)
(***************************************************************************)
EXTENDS Naturals, Sequences, FiniteSets

\* ------------------------------------------------------------------ bounds
\* number of snapshots the config source produces
MaxConfigs == 3
\* number of raw connections clients open
MaxConns == 2
\* number of failures the transport acceptor reports
MaxErrs == 1

\* longest request path given to format_url_path_safely
MaxPathLen == 8

\* ------------------------------------------------------------------- state
VARIABLES
    config_stream,  \* snapshots the source has produced and accept() has not taken yet
    stream_ended,   \* the source has yielded its last item (next() will give None)
    inner,          \* events ready at the transport acceptor, oldest first
    tls_acceptor,   \* Option<Arc<SslAcceptor>>: None or the id of the snapshot it was built from
    pc,             \* position of the single caller of accept()
    result,         \* what the last finished accept() call returned
    handshakes,     \* per raw connection: the future created by accept() and its progress
    log,            \* tracing output of accept()
    processed,      \* history: snapshots taken from config_stream, in order
    nConfigs,       \* history: snapshots produced so far
    nConns,         \* history: raw connections opened so far
    nErrs,          \* history: transport failures raised so far
    streams,        \* per raw connection: the TlsConnStream wrapper around its future
    url_path,       \* serve_static: the request path given to format_url_path_safely
    url_out         \* serve_static: what format_url_path_safely returned for it

vars == <<config_stream, stream_ended, inner, tls_acceptor, pc, result,
          handshakes, log, processed, nConfigs, nConns, nErrs,
          streams, url_path, url_out>>

\* Option::None of the tls_acceptor field; contexts are named by snapshot ids 1..
None == 0

ConnIds == 1..MaxConns

NoResult == [kind |-> "none", conn |-> 0, ctx |-> None]

NoHandshake == [state |-> "none", ctx |-> None, ssl |-> None, at |-> 0]

\* a wrapper nobody has read from or written to
NoStream == [io |-> "unused", payload |-> FALSE]

\* no path formatted yet
NoOutput == [done |-> FALSE, path |-> <<>>]

\* ----------------------------------------------------------------- helpers
\* OpensslConfig::create_acceptor_builder: Ok for a well-formed snapshot,
\* Err for a malformed one (certificate or key that does not parse).
create_acceptor_builder(tls_config) ==
    IF tls_config.valid THEN [ok |-> TRUE, ctx |-> tls_config.id]
                        ELSE [ok |-> FALSE, ctx |-> None]

\* variant: a failed build clears the slot
InstallConfig_clear(tls_config) ==
    LET built == create_acceptor_builder(tls_config)
    IN  IF built.ok THEN built.ctx ELSE None

\* variant: only the first successful build is installed
InstallConfig_first(tls_config) ==
    LET built == create_acceptor_builder(tls_config)
    IN  IF built.ok /\ tls_acceptor = None THEN built.ctx ELSE tls_acceptor

\* variant: the snapshot is installed whether or not it validates
InstallConfig_unvalidated(tls_config) == tls_config.id

\* the value of self.tls_acceptor after the config branch handled tls_config
InstallConfig(tls_config) ==
    LET built == create_acceptor_builder(tls_config)
    IN  IF built.ok THEN built.ctx ELSE tls_acceptor

\* variant: the two info messages are swapped
LogLine_swapped(tls_config) ==
    IF create_acceptor_builder(tls_config).ok
    THEN IF tls_acceptor # None THEN "loaded" ELSE "changed"
    ELSE "invalid"

\* the line the config branch writes to the log
LogLine(tls_config) ==
    IF create_acceptor_builder(tls_config).ok
    THEN IF tls_acceptor # None THEN "changed" ELSE "loaded"
    ELSE "invalid"

\* variant: the slot is not checked before the connection is wrapped
ConnOutcome_unchecked(accepted) ==
    IF accepted.kind = "err"
    THEN [kind |-> "transport_error", conn |-> 0, ctx |-> None]
    ELSE [kind |-> "accepted", conn |-> accepted.id, ctx |-> tls_acceptor]

\* what the connection branch returns for the event taken from the transport
ConnOutcome(accepted) ==
    IF accepted.kind = "err"
    THEN [kind |-> "transport_error", conn |-> 0, ctx |-> None]
    ELSE IF tls_acceptor = None
         THEN [kind |-> "config_missing", conn |-> 0, ctx |-> None]
         ELSE [kind |-> "accepted", conn |-> accepted.id, ctx |-> tls_acceptor]

\* variant: accept() awaits the future before it returns
NewHandshake_awaited(outcome) ==
    [state |-> "done", ctx |-> outcome.ctx, ssl |-> outcome.ctx, at |-> Len(processed)]

\* the handshake future built for an accepted connection: it owns a clone of
\* the Arc read from the slot and has not been polled
NewHandshake(outcome) ==
    [state |-> "pending", ctx |-> outcome.ctx, ssl |-> None, at |-> Len(processed)]

\* variant: the future reads the listener's slot when it runs
SslContext_current(c) == tls_acceptor

\* the context Ssl::new is given when the future of connection c first runs
SslContext(c) == handshakes[c].ctx

\* -------------------------------------------------------------------- Init
\* variant: the constructor installs a context of its own
Init_preinstalled ==
    /\ config_stream = <<>>
    /\ stream_ended = FALSE
    /\ inner = <<>>
    /\ tls_acceptor = 1
    /\ pc = "idle"
    /\ result = NoResult
    /\ handshakes = [c \in ConnIds |-> NoHandshake]
    /\ log = <<>>
    /\ processed = <<>>
    /\ nConfigs = 0
    /\ nConns = 0
    /\ nErrs = 0
    /\ streams = [c \in ConnIds |-> NoStream]
    /\ url_path = <<>>
    /\ url_out = NoOutput

\* try_bind / new: empty slot, nothing taken from either source yet
Init ==
    /\ config_stream = <<>>
    /\ stream_ended = FALSE
    /\ inner = <<>>
    /\ tls_acceptor = None
    /\ pc = "idle"
    /\ result = NoResult
    /\ handshakes = [c \in ConnIds |-> NoHandshake]
    /\ log = <<>>
    /\ processed = <<>>
    /\ nConfigs = 0
    /\ nConns = 0
    /\ nErrs = 0
    /\ streams = [c \in ConnIds |-> NoStream]
    /\ url_path = <<>>
    /\ url_out = NoOutput

\* ------------------------------------------------------------- environment
\* the config source yields one more snapshot
ProduceConfig(valid) ==
    /\ ~stream_ended
    /\ nConfigs < MaxConfigs
    /\ nConfigs' = nConfigs + 1
    /\ config_stream' = Append(config_stream, [id |-> nConfigs + 1, valid |-> valid])
    /\ UNCHANGED <<stream_ended, inner, tls_acceptor, pc, result, handshakes,
                   log, processed, nConns, nErrs,
                   streams, url_path, url_out>>

\* the config source terminates
EndConfigStream ==
    /\ ~stream_ended
    /\ stream_ended' = TRUE
    /\ UNCHANGED <<config_stream, inner, tls_acceptor, pc, result, handshakes,
                   log, processed, nConfigs, nConns, nErrs,
                   streams, url_path, url_out>>

\* a client opens a raw connection
ClientConnect ==
    /\ nConns < MaxConns
    /\ nConns' = nConns + 1
    /\ inner' = Append(inner, [kind |-> "conn", id |-> nConns + 1])
    /\ UNCHANGED <<config_stream, stream_ended, tls_acceptor, pc, result,
                   handshakes, log, processed, nConfigs, nErrs,
                   streams, url_path, url_out>>

\* the transport acceptor has a failure to report
TransportFail ==
    /\ nErrs < MaxErrs
    /\ nErrs' = nErrs + 1
    /\ inner' = Append(inner, [kind |-> "err", id |-> 0])
    /\ UNCHANGED <<config_stream, stream_ended, tls_acceptor, pc, result,
                   handshakes, log, processed, nConfigs, nConns,
                   streams, url_path, url_out>>

\* ---------------------------------------------------------------- accept()
\* the caller enters accept() and reaches the select!
AcceptCall ==
    /\ pc = "idle"
    /\ pc' = "select"
    /\ UNCHANGED <<config_stream, stream_ended, inner, tls_acceptor, result,
                   handshakes, log, processed, nConfigs, nConns, nErrs,
                   streams, url_path, url_out>>

\* local_addrs(&self): reads the transport's addresses, writes nothing
LocalAddrs ==
    /\ pc = "idle"
    /\ UNCHANGED vars

\* variant: accept() returns after handling a snapshot
ConfigEvent_returns ==
    /\ pc = "select"
    /\ config_stream # <<>>
    /\ LET tls_config == Head(config_stream)
       IN  /\ tls_acceptor' = InstallConfig(tls_config)
           /\ log' = Append(log, LogLine(tls_config))
           /\ processed' = Append(processed, tls_config)
    /\ config_stream' = Tail(config_stream)
    /\ pc' = "idle"
    /\ UNCHANGED <<stream_ended, inner, result, handshakes,
                   nConfigs, nConns, nErrs,
                   streams, url_path, url_out>>

\* select! branch 1, Some(tls_config): build, install or log, loop again
ConfigEvent ==
    /\ pc = "select"
    /\ config_stream # <<>>
    /\ LET tls_config == Head(config_stream)
       IN  /\ tls_acceptor' = InstallConfig(tls_config)
           /\ log' = Append(log, LogLine(tls_config))
           /\ processed' = Append(processed, tls_config)
    /\ config_stream' = Tail(config_stream)
    /\ UNCHANGED <<stream_ended, inner, pc, result, handshakes,
                   nConfigs, nConns, nErrs,
                   streams, url_path, url_out>>

\* variant: end of stream is ignored and the last context kept
ConfigEnd_retain ==
    /\ pc = "select"
    /\ config_stream = <<>>
    /\ stream_ended
    /\ UNCHANGED vars

\* select! branch 1, None: unreachable!() panics
ConfigEnd ==
    /\ pc = "select"
    /\ config_stream = <<>>
    /\ stream_ended
    /\ pc' = "panicked"
    /\ UNCHANGED <<config_stream, stream_ended, inner, tls_acceptor, result,
                   handshakes, log, processed, nConfigs, nConns, nErrs,
                   streams, url_path, url_out>>

\* variant: the handshake is awaited inside accept() and its error returned
ConnEvent_awaits ==
    /\ pc = "select"
    /\ inner # <<>>
    /\ LET outcome == ConnOutcome(Head(inner))
       IN  \/ /\ result' = outcome
              /\ handshakes' =
                   IF outcome.kind = "accepted"
                   THEN [handshakes EXCEPT ![outcome.conn] = NewHandshake(outcome)]
                   ELSE handshakes
           \/ /\ outcome.kind = "accepted"
              /\ result' = [kind |-> "handshake_error", conn |-> 0, ctx |-> None]
              /\ handshakes' = [handshakes EXCEPT ![outcome.conn] =
                                  [NewHandshake(outcome) EXCEPT !.state = "failed"]]
    /\ inner' = Tail(inner)
    /\ pc' = "idle"
    /\ UNCHANGED <<config_stream, stream_ended, tls_acceptor, log, processed,
                   nConfigs, nConns, nErrs,
                   streams, url_path, url_out>>

\* variant: a transport failure is dropped and the loop goes round again
ConnEvent_swallow ==
    /\ pc = "select"
    /\ inner # <<>>
    /\ LET outcome == ConnOutcome(Head(inner))
       IN  /\ result' = IF outcome.kind = "transport_error" THEN result ELSE outcome
           /\ pc' = IF outcome.kind = "transport_error" THEN "select" ELSE "idle"
           /\ handshakes' =
                IF outcome.kind = "accepted"
                THEN [handshakes EXCEPT ![outcome.conn] = NewHandshake(outcome)]
                ELSE handshakes
    /\ inner' = Tail(inner)
    /\ UNCHANGED <<config_stream, stream_ended, tls_acceptor, log, processed,
                   nConfigs, nConns, nErrs,
                   streams, url_path, url_out>>

\* variant: a connection refused for want of a context stays queued
ConnEvent_requeue ==
    /\ pc = "select"
    /\ inner # <<>>
    /\ LET outcome == ConnOutcome(Head(inner))
       IN  /\ result' = outcome
           /\ handshakes' =
                IF outcome.kind = "accepted"
                THEN [handshakes EXCEPT ![outcome.conn] = NewHandshake(outcome)]
                ELSE handshakes
           /\ inner' = IF outcome.kind = "config_missing" THEN inner ELSE Tail(inner)
    /\ pc' = "idle"
    /\ UNCHANGED <<config_stream, stream_ended, tls_acceptor, log, processed,
                   nConfigs, nConns, nErrs,
                   streams, url_path, url_out>>

\* variant: taking the connection branch loses the snapshot the other
\* branch had ready
ConnEvent_cancel ==
    /\ pc = "select"
    /\ inner # <<>>
    /\ LET outcome == ConnOutcome(Head(inner))
       IN  /\ result' = outcome
           /\ handshakes' =
                IF outcome.kind = "accepted"
                THEN [handshakes EXCEPT ![outcome.conn] = NewHandshake(outcome)]
                ELSE handshakes
    /\ inner' = Tail(inner)
    /\ pc' = "idle"
    /\ config_stream' = IF config_stream = <<>> THEN <<>> ELSE Tail(config_stream)
    /\ UNCHANGED <<stream_ended, tls_acceptor, log, processed,
                   nConfigs, nConns, nErrs,
                   streams, url_path, url_out>>

\* variant: the context is moved out of the slot instead of cloned
ConnEvent_take ==
    /\ pc = "select"
    /\ inner # <<>>
    /\ LET outcome == ConnOutcome(Head(inner))
       IN  /\ result' = outcome
           /\ handshakes' =
                IF outcome.kind = "accepted"
                THEN [handshakes EXCEPT ![outcome.conn] = NewHandshake(outcome)]
                ELSE handshakes
           /\ tls_acceptor' = IF outcome.kind = "accepted" THEN None ELSE tls_acceptor
    /\ inner' = Tail(inner)
    /\ pc' = "idle"
    /\ UNCHANGED <<config_stream, stream_ended, log, processed,
                   nConfigs, nConns, nErrs,
                   streams, url_path, url_out>>

\* select! branch 2: take the transport's event and return
ConnEvent ==
    /\ pc = "select"
    /\ inner # <<>>
    /\ LET outcome == ConnOutcome(Head(inner))
       IN  /\ result' = outcome
           /\ handshakes' =
                IF outcome.kind = "accepted"
                THEN [handshakes EXCEPT ![outcome.conn] = NewHandshake(outcome)]
                ELSE handshakes
    /\ inner' = Tail(inner)
    /\ pc' = "idle"
    /\ UNCHANGED <<config_stream, stream_ended, tls_acceptor, log, processed,
                   nConfigs, nConns, nErrs,
                   streams, url_path, url_out>>

\* -------------------------------------------------------- handshake future
\* first poll of the future: Ssl::new(tls_acceptor.context()), SslStream::new
HandshakeStart(c, ok) ==
    /\ handshakes[c].state = "pending"
    /\ handshakes' = [handshakes EXCEPT ![c] =
            IF ok THEN [@ EXCEPT !.state = "handshaking", !.ssl = SslContext(c)]
                  ELSE [@ EXCEPT !.state = "failed"]]
    /\ UNCHANGED <<config_stream, stream_ended, inner, tls_acceptor, pc, result,
                   log, processed, nConfigs, nConns, nErrs,
                   streams, url_path, url_out>>

\* SslStream::accept() resolves: Ok(tls_stream) or the mapped error
HandshakeFinish(c, ok) ==
    /\ handshakes[c].state = "handshaking"
    /\ handshakes' = [handshakes EXCEPT ![c].state = IF ok THEN "done" ELSE "failed"]
    /\ UNCHANGED <<config_stream, stream_ended, inner, tls_acceptor, pc, result,
                   log, processed, nConfigs, nConns, nErrs,
                   streams, url_path, url_out>>

\* ----------------------------------------------------------- specification
Next ==
    \/ \E valid \in BOOLEAN : ProduceConfig(valid)
    \/ EndConfigStream
    \/ ClientConnect
    \/ TransportFail
    \/ LocalAddrs
    \/ AcceptCall
    \/ ConfigEvent
    \/ ConfigEnd
    \/ ConnEvent
    \/ \E c \in ConnIds, ok \in BOOLEAN : HandshakeStart(c, ok)
    \/ \E c \in ConnIds, ok \in BOOLEAN : HandshakeFinish(c, ok)

Spec == Init /\ [][Next]_vars

\* select! picks among its ready branches at random, so a connection branch
\* that stays ready is taken in the end
SpecFair == Spec /\ WF_vars(ConnEvent)

\* ------------------------------------------------- TlsConnStream (wrapper)
\* the wrapper polls the future it holds only inside a read or a write
Polled(c) == streams[c].io = "busy"

\* the owner of a stream accept() returned starts a read or a write on it
StreamOp(c) ==
    /\ handshakes[c].state \in {"pending", "done"}
    /\ streams[c].io # "busy"
    /\ streams' = [streams EXCEPT ![c].io = "busy"]
    /\ UNCHANGED <<config_stream, stream_ended, inner, tls_acceptor, pc, result,
                   handshakes, log, processed, nConfigs, nConns, nErrs,
                   url_path, url_out>>

\* the read or write in flight makes the first poll of the future
DriveStart(c, ok) == Polled(c) /\ HandshakeStart(c, ok)

\* the read or write in flight polls the future until the handshake resolves
DriveFinish(c, ok) == Polled(c) /\ HandshakeFinish(c, ok)

\* the read or write in flight moves payload over the negotiated session
Transfer(c) ==
    /\ handshakes[c].state = "done"
    /\ streams[c].io = "busy"
    /\ streams' = [streams EXCEPT ![c] = [io |-> "idle", payload |-> TRUE]]
    /\ UNCHANGED <<config_stream, stream_ended, inner, tls_acceptor, pc, result,
                   handshakes, log, processed, nConfigs, nConns, nErrs,
                   url_path, url_out>>

\* the read or write in flight returns the handshake error to the owner
OpFails(c) ==
    /\ handshakes[c].state = "failed"
    /\ streams[c].io = "busy"
    /\ streams' = [streams EXCEPT ![c].io = "idle"]
    /\ UNCHANGED <<config_stream, stream_ended, inner, tls_acceptor, pc, result,
                   handshakes, log, processed, nConfigs, nConns, nErrs,
                   url_path, url_out>>

\* the listener with every returned stream used through its wrapper
NextStream ==
    \/ \E valid \in BOOLEAN : ProduceConfig(valid)
    \/ ClientConnect
    \/ AcceptCall
    \/ ConfigEvent
    \/ ConnEvent
    \/ \E c \in ConnIds : StreamOp(c)
    \/ \E c \in ConnIds, ok \in BOOLEAN : DriveStart(c, ok)
    \/ \E c \in ConnIds, ok \in BOOLEAN : DriveFinish(c, ok)
    \/ \E c \in ConnIds : Transfer(c)
    \/ \E c \in ConnIds : OpFails(c)

SpecStream == Init /\ [][NextStream]_vars

TypeOK ==
    /\ tls_acceptor \in 0..MaxConfigs
    /\ pc \in {"idle", "select", "panicked"}
    /\ Len(config_stream) <= MaxConfigs
    /\ Len(inner) <= MaxConns + MaxErrs

\* ------------------------------------------- serve_static: path formatting
\* the characters request paths are made of: both separators, the dot and
\* one ordinary character
Chars == {"/", "\\", ".", "a"}

Paths == UNION {[1..n -> Chars] : n \in 0..MaxPathLen}

\* str::split(seps): the pieces between separators, empty pieces included
RECURSIVE SplitFrom(_, _, _, _, _)
SplitFrom(path, seps, i, part, parts) ==
    IF i > Len(path) THEN Append(parts, part)
    ELSE IF path[i] \in seps
         THEN SplitFrom(path, seps, i + 1, <<>>, Append(parts, part))
         ELSE SplitFrom(path, seps, i + 1, Append(part, path[i]), parts)

Split(path, seps) == SplitFrom(path, seps, 1, <<>>, <<>>)

\* the for loop over the parts: skip "" and ".", pop on "..", push the rest
RECURSIVE UsedParts(_, _, _)
UsedParts(parts, i, used_parts) ==
    IF i > Len(parts) THEN used_parts
    ELSE LET part == parts[i]
         IN  IF part = <<>> \/ part = <<".">>
             THEN UsedParts(parts, i + 1, used_parts)
             ELSE IF part = <<".", ".">>
                  THEN UsedParts(parts, i + 1,
                                 IF used_parts = <<>> THEN <<>>
                                 ELSE SubSeq(used_parts, 1, Len(used_parts) - 1))
                  ELSE UsedParts(parts, i + 1, Append(used_parts, part))

\* [&str]::join("/")
RECURSIVE Join(_, _)
Join(parts, i) ==
    IF i > Len(parts) THEN <<>>
    ELSE IF i = Len(parts) THEN parts[i]
         ELSE parts[i] \o <<"/">> \o Join(parts, i + 1)

\* variant: only '/' separates the parts
format_url_path_slash_only(path) ==
    Join(UsedParts(Split(path, {"/"}), 1, <<>>), 1)

format_url_path_safely(path) ==
    Join(UsedParts(Split(path, {"/", "\\"}), 1, <<>>), 1)

\* a request path arrives, the listener untouched
InitPath ==
    /\ config_stream = <<>>
    /\ stream_ended = FALSE
    /\ inner = <<>>
    /\ tls_acceptor = None
    /\ pc = "idle"
    /\ result = NoResult
    /\ handshakes = [c \in ConnIds |-> NoHandshake]
    /\ log = <<>>
    /\ processed = <<>>
    /\ nConfigs = 0
    /\ nConns = 0
    /\ nErrs = 0
    /\ streams = [c \in ConnIds |-> NoStream]
    /\ url_path \in Paths
    /\ url_out = NoOutput

\* the path is formatted
FormatPath ==
    /\ ~url_out.done
    /\ url_out' = [done |-> TRUE, path |-> format_url_path_safely(url_path)]
    /\ UNCHANGED <<config_stream, stream_ended, inner, tls_acceptor, pc, result,
                   handshakes, log, processed, nConfigs, nConns, nErrs,
                   streams, url_path>>

NextPath == FormatPath

SpecPath == InitPath /\ [][NextPath]_vars

\* ------------------------------------------------------- step descriptions
\* the step in which accept() takes a raw connection from the transport
TookConn ==
    /\ pc = "select" /\ inner # <<>> /\ Head(inner).kind = "conn"
    /\ inner' = Tail(inner)

\* the step in which accept() takes a failure from the transport
TookErr ==
    /\ pc = "select" /\ inner # <<>> /\ Head(inner).kind = "err"
    /\ inner' = Tail(inner)

\* the step in which accept() takes a snapshot that fails validation
BadReload ==
    /\ pc = "select" /\ config_stream # <<>> /\ ~Head(config_stream).valid
    /\ processed' = Append(processed, Head(config_stream))

\* the step in which the handshake of connection c fails
HandshakeFails(c) ==
    handshakes[c].state # "failed" /\ handshakes'[c].state = "failed"

\* no snapshot processed so far passed validation
NeverInstalled == \A i \in 1..Len(processed) : ~processed[i].valid

\* id of the most recent valid snapshot of a sequence of snapshots
LastValid(seq) ==
    LET good == {i \in 1..Len(seq) : seq[i].valid}
    IN  IF good = {} THEN None
        ELSE seq[CHOOSE i \in good : \A j \in good : j <= i].id

\* accept() has taken a failure from the transport before
ErrTaken == Cardinality({i \in 1..Len(inner) : inner[i].kind = "err"}) < nErrs

Unfinished(c) == handshakes[c].state \in {"pending", "handshaking"}

\* ------------------------------------------------------------------ claims
\* C1: whenever accept() takes a raw connection while no processed snapshot
\* has ever passed validation, that call ends at once with the
\* configuration-missing error: no accepted connection, no further waiting.
C1_ConfigMissing ==
    [][TookConn /\ NeverInstalled =>
          /\ pc' = "idle"
          /\ result'.kind = "config_missing"
          /\ handshakes' = handshakes]_vars

\* C1 witness: a call ended with the error after invalid snapshots only
C1_Witness ==
    /\ result.kind = "config_missing"
    /\ processed # <<>>
    /\ NeverInstalled
    /\ pc = "idle"

\* C2: a snapshot that fails validation leaves the slot and every bound
\* handshake as they were, and a connection taken while the latest processed
\* snapshot is a failed one is accepted and bound to the context of the last
\* snapshot that did validate.
C2_BadReloadKeepsContext ==
    [][/\ BadReload => tls_acceptor' = tls_acceptor /\ handshakes' = handshakes
       /\ (/\ TookConn
           /\ processed # <<>>
           /\ ~processed[Len(processed)].valid
           /\ ~NeverInstalled)
          => /\ result'.kind = "accepted"
             /\ handshakes'[result'.conn].state = "pending"
             /\ handshakes'[result'.conn].ctx = LastValid(processed)
             /\ handshakes'[result'.conn].ctx # None]_vars

\* C2 witness: a connection accepted right after a failed reload finished its
\* handshake against the context installed before that reload
C2_Witness ==
    \E c \in ConnIds :
        /\ handshakes[c].state = "done"
        /\ handshakes[c].at >= 2
        /\ ~processed[handshakes[c].at].valid
        /\ handshakes[c].ssl = LastValid(SubSeq(processed, 1, handshakes[c].at))
        /\ handshakes[c].ssl # None

\* C3: accept() binds a connection to the context that is current when the
\* connection is taken; the bound context never changes afterwards, whatever
\* is installed later; and the handshake runs on exactly that context.
C3_HandshakeKeepsContext ==
    [][\A c \in ConnIds :
          /\ (TookConn /\ result'.kind = "accepted" /\ result'.conn = c)
                => handshakes'[c].ctx = tls_acceptor /\ tls_acceptor # None
          /\ handshakes[c].state # "none" => handshakes'[c].ctx = handshakes[c].ctx
          /\ handshakes'[c].state \in {"handshaking", "done"}
                => handshakes'[c].ssl = handshakes'[c].ctx]_vars

\* C3 witness: a handshake completed on a context that has been superseded,
\* while another connection is bound to the newer one
C3_Witness ==
    \E c, d \in ConnIds :
        /\ handshakes[c].state = "done"
        /\ handshakes[c].ssl # None
        /\ handshakes[c].ssl # tls_acceptor
        /\ handshakes[d].state # "none"
        /\ handshakes[d].ctx = tls_acceptor

\* C4: the slot always holds the context of the most recent processed
\* snapshot that validated, so a connection is accepted exactly when there
\* is one and is bound to it.
C4_InstallVisibleToNext ==
    [][/\ tls_acceptor' = LastValid(processed')
       /\ TookConn /\ ~NeverInstalled
            => /\ result'.kind = "accepted"
               /\ result'.ctx = LastValid(processed)
               /\ handshakes'[result'.conn].ctx = LastValid(processed)]_vars

\* C4 witness: install 1, accept, install a later one, accept: the second
\* connection is bound to the later context, the first to the earlier
C4_Witness ==
    /\ handshakes[1].state # "none"
    /\ handshakes[2].state # "none"
    /\ handshakes[1].ctx # None
    /\ handshakes[2].ctx # handshakes[1].ctx
    /\ handshakes[2].ctx = processed[handshakes[2].at].id
    /\ handshakes[2].at > handshakes[1].at

\* C5: a failing handshake touches nothing but its own connection (not the
\* slot, the queues, the caller's position, the last result or any other
\* handshake), and with a failed handshake around, a call that takes a raw
\* connection with a context installed still returns it accepted.
C5_HandshakeFailureIsolated ==
    [][/\ \A c \in ConnIds : HandshakeFails(c) =>
             /\ UNCHANGED <<tls_acceptor, inner, config_stream, pc, result, log>>
             /\ \A d \in ConnIds \ {c} : handshakes'[d] = handshakes[d]
       /\ ((\E c \in ConnIds : handshakes[c].state = "failed")
              /\ TookConn /\ tls_acceptor # None)
            => /\ pc' = "idle"
               /\ result'.kind = "accepted"
               /\ handshakes'[result'.conn].state = "pending"]_vars

\* C5 witness: connection 1 failed its handshake and the next call returned
\* connection 2
C5_Witness ==
    /\ handshakes[1].state = "failed"
    /\ result.kind = "accepted"
    /\ result.conn = 2
    /\ pc = "idle"

\* C6: a call that takes a raw connection with a context installed returns
\* in that very step, with the handshake of that connection not yet begun;
\* and unfinished handshakes never disable the connection branch.
C6_AcceptNeverAwaitsHandshake ==
    /\ [][TookConn /\ tls_acceptor # None =>
            /\ pc' = "idle"
            /\ result'.kind = "accepted"
            /\ handshakes'[result'.conn].state = "pending"
            /\ handshakes'[result'.conn].ssl = None]_vars
    /\ []((pc = "select" /\ inner # <<>> /\ \E c \in ConnIds : Unfinished(c))
            => ENABLED ConnEvent)

\* C6 witness: connection 2 was returned while the handshake of connection 1
\* is still unfinished
C6_Witness ==
    /\ Unfinished(1)
    /\ result.kind = "accepted"
    /\ result.conn = 2
    /\ handshakes[2].state = "pending"

\* C7: every accept() call that ends, ends with an accepted connection, a
\* transport error or a configuration-missing error; it never ends abnormally.
C7_OnlyThreeOutcomes ==
    /\ pc # "panicked"
    /\ result.kind \in {"none", "accepted", "transport_error", "config_missing"}

C9_TransportErrorPropagates ==
    /\ [][/\ TookErr =>
               /\ pc' = "idle"
               /\ result'.kind = "transport_error"
               /\ UNCHANGED <<tls_acceptor, handshakes, config_stream, processed, log>>
          /\ (TookConn /\ ErrTaken /\ tls_acceptor # None)
               => pc' = "idle" /\ result'.kind = "accepted"]_vars
    /\ []((result.kind = "transport_error" /\ pc = "idle") => ENABLED AcceptCall)

\* C9 witness: a call returned the transport error and a later one returned
\* an accepted connection
C9_Witness ==
    /\ ErrTaken
    /\ result.kind = "accepted"
    /\ pc = "idle"

\* C10: the slot starts empty and, once filled, is never empty again.
C10_NeverBackToUnconfigured ==
    /\ tls_acceptor = None
    /\ [][tls_acceptor # None => tls_acceptor' # None]_vars

\* C10 witness: a context is installed after a failed reload, a transport
\* error and a failed handshake have all happened
C10_Witness ==
    /\ tls_acceptor # None
    /\ processed # <<>>
    /\ ~processed[Len(processed)].valid
    /\ ErrTaken
    /\ \E c \in ConnIds : handshakes[c].state = "failed"

\* C11: for every stream accept() returned, the handshake takes no step until
\* a read or write has been started on the stream; payload moves only inside
\* a read or write and only once the handshake has completed on the bound
\* context; and a resolved handshake is never run again by later operations.
C11_LazyHandshake ==
    [][\A c \in ConnIds :
          /\ handshakes'[c].state \in {"handshaking", "done", "failed"}
                => streams'[c].io # "unused"
          /\ handshakes'[c].state # handshakes[c].state
                => \/ handshakes[c].state = "none" /\ handshakes'[c].state = "pending"
                   \/ streams[c].io = "busy"
          /\ (streams'[c].payload /\ ~streams[c].payload)
                => /\ handshakes[c].state = "done"
                   /\ streams[c].io = "busy"
                   /\ handshakes[c].ssl = handshakes[c].ctx
          /\ handshakes[c].state = "done"
                => handshakes'[c].state = "done" /\ handshakes'[c].ssl = handshakes[c].ssl
          /\ handshakes[c].state = "failed"
                => handshakes'[c].state = "failed" /\ ~streams'[c].payload]_vars

\* C11 witness: payload has moved on connection 1 and a later read or write
\* is in flight on the same session
C11_Witness ==
    /\ handshakes[1].state = "done"
    /\ streams[1].payload
    /\ streams[1].io = "busy"

\* resolution from the right: a ".." cancels the nearest kept part before it
\* and is dropped when there is none
RECURSIVE ResolveBack(_, _, _, _)
ResolveBack(parts, i, skip, kept) ==
    IF i = 0 THEN kept
    ELSE LET part == parts[i]
         IN  IF part = <<>> \/ part = <<".">>
             THEN ResolveBack(parts, i - 1, skip, kept)
             ELSE IF part = <<".", ".">>
                  THEN ResolveBack(parts, i - 1, skip + 1, kept)
                  ELSE IF skip > 0
                       THEN ResolveBack(parts, i - 1, skip - 1, kept)
                       ELSE ResolveBack(parts, i - 1, 0, <<part>> \o kept)

\* C12: the formatted path has no backslash; its segments, read between
\* '/', are never empty, "." or ".."; it is the input with both separators
\* splitting, each ".." cancelling the kept segment before it or nothing; the
\* traversal inputs of the tests come out inside the root.
C12_FormattedPathSafe ==
    url_out.done =>
        LET out == url_out.path
            segs == Split(out, {"/"})
            parts == Split(url_path, {"/", "\\"})
        IN  /\ \A i \in 1..Len(out) : out[i] # "\\"
            /\ out # <<>> =>
                 \A i \in 1..Len(segs) : segs[i] \notin {<<>>, <<".">>, <<".", ".">>}
            /\ out = Join(ResolveBack(parts, Len(parts), 0, <<>>), 1)
            /\ url_path = <<".", ".", "/", "a", "/", "a", "/", "a">>
                 => out = <<"a", "/", "a", "/", "a">>
            /\ url_path = <<".", ".", "\\", "a", "\\", "a", "\\", "a">>
                 => out = <<"a", "/", "a", "/", "a">>
            /\ url_path = <<"a", "/", ".", ".", "/", "a", "/", "a">>
                 => out = <<"a", "/", "a">>
            /\ url_path = <<"a", "\\", ".", ".", "\\", "a", "\\", "a">>
                 => out = <<"a", "/", "a">>

\* C12 witness: a path climbing above the root with backslashes was formatted
C12_Witness ==
    /\ url_out.done
    /\ url_path = <<".", ".", "\\", "a", "\\", "a", "\\", "a">>
    /\ url_out.path = <<"a", "/", "a", "/", "a">>

\* the step in which accept() handles a snapshot
ConfigStep == processed' # processed

\* the step in which an accept() call returns to its caller
Returns == pc = "select" /\ pc' = "idle"

\* the step in which accept() takes an event from the transport
TookEvent == inner # <<>> /\ inner' = Tail(inner)

\* C13: handling a snapshot, valid or not, keeps accept() in its loop with
\* the last result and the transport queue as they were; a call returns only
\* in a step that takes one event from the transport, and every event taken
\* from the transport ends the call that took it.
C13_ConfigEventNeverReturns ==
    [][/\ ConfigStep =>
            /\ pc = "select" /\ pc' = "select"
            /\ result' = result
            /\ inner' = inner
       /\ Returns => TookEvent /\ ~ConfigStep
       /\ TookEvent => Returns]_vars

\* C13 witness: the only call that has returned so far handled two snapshots
\* before it took its one event
C13_Witness ==
    /\ pc = "idle"
    /\ result.kind # "none"
    /\ nConns + nErrs = Len(inner) + 1
    /\ Len(processed) >= 2

\* C14: once a call is waiting with an event ready at the transport, the
\* call returns in the end.
C14_PendingConnectionReturns ==
    (pc = "select" /\ inner # <<>>) ~> (pc = "idle")

\* ids of the processed snapshots that passed validation
ValidIds == {processed[i].id : i \in {j \in 1..Len(processed) : processed[j].valid}}

\* C15: the slot is empty or holds the context of one processed snapshot
\* that validated, and so does every context bound to a handshake, handed to
\* Ssl::new or named in an accepted result.
C15_OnlyValidatedContexts ==
    /\ tls_acceptor \in {None} \cup ValidIds
    /\ result.kind = "accepted" => result.ctx \in ValidIds
    /\ \A c \in ConnIds :
          /\ handshakes[c].state # "none" => handshakes[c].ctx \in ValidIds
          /\ handshakes[c].ssl # None => handshakes[c].ssl \in ValidIds

\* C15 witness: a snapshot was rejected before and after an install and a
\* handshake runs on the installed context
C15_Witness ==
    /\ Len(processed) = 3
    /\ ~processed[1].valid /\ processed[2].valid /\ ~processed[3].valid
    /\ tls_acceptor = 2
    /\ \E c \in ConnIds : handshakes[c].ssl = 2

\* connection c was taken from the transport and no stream was made of it
Dropped(c) ==
    /\ c <= nConns
    /\ \A i \in 1..Len(inner) : inner[i].id # c
    /\ handshakes[c].state = "none"

\* C16: a connection taken with the slot empty leaves the queue in the call
\* that fails, with no handshake made for it; a dropped connection stays
\* dropped and is never the connection of a later result; and the
\* configuration-missing error is only ever returned by taking a connection.
C16_RefusedConnectionDropped ==
    [][/\ (TookConn /\ tls_acceptor = None) =>
            /\ result'.kind = "config_missing"
            /\ result'.conn = 0
            /\ handshakes' = handshakes
            /\ \A i \in 1..Len(inner') : inner'[i].id # Head(inner).id
       /\ \A c \in ConnIds : Dropped(c) =>
            /\ handshakes'[c].state = "none"
            /\ \A i \in 1..Len(inner') : inner'[i].id # c
            /\ result'.conn # c
       /\ (Returns /\ result'.kind = "config_missing") => TookConn]_vars

\* C16 witness: connection 1 was dropped, a context was installed later and
\* the next call returned connection 2
C16_Witness ==
    /\ Dropped(1)
    /\ tls_acceptor # None
    /\ result.kind = "accepted"
    /\ result.conn = 2

\* C17: the log has one line per processed snapshot: "invalid" for one that
\* fails validation, "loaded" for the first that validates, "changed" for
\* every later one that validates.
C17_LoadedThenChanged ==
    /\ Len(log) = Len(processed)
    /\ \A i \in 1..Len(log) :
          log[i] = IF ~processed[i].valid THEN "invalid"
                   ELSE IF \A j \in 1..(i - 1) : ~processed[j].valid
                        THEN "loaded" ELSE "changed"
    /\ Cardinality({i \in 1..Len(log) : log[i] = "loaded"}) <= 1

\* C17 witness: an invalid snapshot, then the first valid one, then another
C17_Witness == log = <<"invalid", "loaded", "changed">>

\* everything but pc
notPc == <<config_stream, stream_ended, inner, tls_acceptor, result,
           handshakes, log, processed, nConfigs, nConns, nErrs,
           streams, url_path, url_out>>

\* C18: a call waiting on a stream that has ended with nothing left in it
\* can abort (whatever the slot holds and whatever the transport has ready);
\* a call aborts only that way and returns no result in doing so; and after
\* the abort no call ever returns, takes an event or handles a snapshot.
C18_EndOfStreamPanics ==
    /\ [][/\ (pc # "panicked" /\ pc' = "panicked") =>
               /\ pc = "select" /\ stream_ended /\ config_stream = <<>>
               /\ UNCHANGED notPc
          /\ pc = "panicked" =>
               /\ pc' = "panicked"
               /\ UNCHANGED <<result, tls_acceptor, processed, config_stream>>
               /\ ~TookEvent]_vars
    /\ []((pc = "select" /\ stream_ended /\ config_stream = <<>>)
            => ENABLED (ConfigEnd /\ pc' = "panicked"))

\* C18 witness: the call aborted with a context installed and a raw
\* connection ready
C18_Witness ==
    /\ pc = "panicked"
    /\ tls_acceptor # None
    /\ inner # <<>>
    /\ Head(inner).kind = "conn"

\* C19: handling a snapshot leaves the transport queue and the handshakes
\* alone; taking a transport event leaves the snapshot queue alone; and the
\* snapshots handled so far followed by those still queued are exactly the
\* snapshots produced, in the order produced.
C19_NoEventLost ==
    /\ [][/\ ConfigStep =>
               /\ inner' = inner
               /\ handshakes' = handshakes
               /\ config_stream # <<>>
               /\ processed' = Append(processed, Head(config_stream))
               /\ config_stream' = Tail(config_stream)
          /\ TookEvent => config_stream' = config_stream /\ processed' = processed]_vars
    /\ [](LET all == processed \o config_stream
          IN  /\ Len(all) = nConfigs
              /\ \A i \in 1..Len(all) : all[i].id = i)

\* C19 witness: with both sources ready, a connection was taken and then a
\* snapshot handled, each with the other source still holding an item
C19_Witness ==
    /\ pc = "select"
    /\ Len(processed) = 2
    /\ config_stream # <<>>
    /\ inner # <<>>
    /\ handshakes[1].state # "none"
    /\ handshakes[1].at = 1

\* C20: the slot changes only in a step of the loop that handles a snapshot
\* which validates, and then to that snapshot's context.
C20_SlotWrittenOnlyByInstall ==
    [][tls_acceptor' # tls_acceptor =>
          /\ pc = "select" /\ pc' = "select"
          /\ config_stream # <<>>
          /\ Head(config_stream).valid
          /\ config_stream' = Tail(config_stream)
          /\ tls_acceptor' = Head(config_stream).id]_vars

\* C20 witness: the first context is still in the slot after a failed build,
\* a finished handshake and a call that returned a transport error
C20_Witness ==
    /\ tls_acceptor = 1
    /\ Len(processed) >= 2
    /\ result.kind = "transport_error"
    /\ pc = "idle"
    /\ \E c \in ConnIds : handshakes[c].state = "done"

====
